---- MODULE Spec2Model ----
(***************************************************************************)
(* A model of dns-exfil (src/main.py): a threaded UDP DNS listener that    *)
(* logs a (possibly hex-decoded) rendering of every question and relays    *)
(* the resolver's answer to the sender.                                    *)
(*                                                                         *)
(* Strings are sequences of Unicode code points, bytes are sequences of    *)
(* numbers in 0..255.                                                      *)
(***************************************************************************)
EXTENDS Integers, Sequences, FiniteSets, TLC

(***************************************************************************)
(* Bounds of the model.                                                    *)
(***************************************************************************)
\* longest raw --suffix argument that is enumerated
MaxSuffixLen == 3
\* most labels in front of the suffix in an enumerated question name
MaxLabels == 2
\* datagrams sent to the listener in one run
MaxDatagrams == 2

(***************************************************************************)
(* Characters.                                                             *)
(***************************************************************************)
\* "." : the separator of main.py lines 13-16 and 45-46
DOT == 46

IsSpace(c) == c \in {9, 10, 11, 12, 13, 32}

IsHexDigit(c) == (c \in 48..57) \/ (c \in 65..70) \/ (c \in 97..102)

HexVal(c) == IF c \in 48..57 THEN c - 48
             ELSE IF c \in 65..70 THEN c - 55
             ELSE c - 87

\* the one element of a singleton set; {e(x) : x \in {v}} gives v a name
\* under which it is evaluated once
The(S) == CHOOSE x \in S : TRUE

\* the value that stands for a raised ValueError: no string or byte string
\* holds a negative number
Invalid == <<-1>>

(***************************************************************************)
(* str.startswith / str.endswith                                           *)
(***************************************************************************)
startswith(s, p) == Len(p) <= Len(s) /\ SubSeq(s, 1, Len(p)) = p

endswith(s, p) == Len(p) <= Len(s) /\ SubSeq(s, Len(s) - Len(p) + 1, Len(s)) = p

(***************************************************************************)
(* DNSLoggerHelper.parse_suffix                                            *)
(***************************************************************************)
parse_suffix_prepend_always(suffix) ==
    LET s1 == IF suffix # <<>> THEN <<DOT>> \o suffix ELSE suffix
    IN  IF s1 # <<>> /\ ~endswith(s1, <<DOT>>) THEN s1 \o <<DOT>> ELSE s1

parse_suffix(suffix) ==
    LET s1 == IF suffix # <<>> /\ ~startswith(suffix, <<DOT>>)
              THEN <<DOT>> \o suffix ELSE suffix
    IN  IF s1 # <<>> /\ ~endswith(s1, <<DOT>>) THEN s1 \o <<DOT>> ELSE s1

(***************************************************************************)
(* bytes.fromhex: pairs of hex digits, ASCII whitespace skipped between    *)
(* the pairs; anything else raises ValueError.                             *)
(***************************************************************************)
RECURSIVE fromhex_at(_, _)
fromhex_at(s, i) ==
    IF i > Len(s) THEN <<>>
    ELSE IF IsSpace(s[i]) THEN fromhex_at(s, i + 1)
    ELSE IF i + 1 > Len(s) THEN Invalid
    ELSE IF ~IsHexDigit(s[i]) \/ ~IsHexDigit(s[i + 1]) THEN Invalid
    ELSE LET rest == fromhex_at(s, i + 2)
         IN  IF rest = Invalid THEN Invalid
             ELSE <<16 * HexVal(s[i]) + HexVal(s[i + 1])>> \o rest

fromhex(s) == fromhex_at(s, 1)

(***************************************************************************)
(* bytes.decode("utf-8"): strict UTF-8 (no overlong forms, no surrogates,  *)
(* nothing above U+10FFFF); a bad sequence raises UnicodeDecodeError, a    *)
(* ValueError.                                                             *)
(***************************************************************************)
IsCont(b) == b \in 128..191

RECURSIVE utf8_decode_at(_, _)
utf8_decode_at(b, i) ==
    IF i > Len(b) THEN <<>>
    ELSE
      LET b0 == b[i]
          n  == IF b0 < 128 THEN 1
                ELSE IF b0 \in 194..223 THEN 2
                ELSE IF b0 \in 224..239 THEN 3
                ELSE IF b0 \in 240..244 THEN 4
                ELSE 0
      IN  IF n = 0 \/ i + n - 1 > Len(b) THEN Invalid
          ELSE
            LET ok == CASE n = 1 -> TRUE
                        [] n = 2 -> IsCont(b[i + 1])
                        [] n = 3 -> /\ IsCont(b[i + 1]) /\ IsCont(b[i + 2])
                                    /\ (b0 = 224 => b[i + 1] >= 160)
                                    /\ (b0 = 237 => b[i + 1] <= 159)
                        [] n = 4 -> /\ IsCont(b[i + 1]) /\ IsCont(b[i + 2])
                                    /\ IsCont(b[i + 3])
                                    /\ (b0 = 240 => b[i + 1] >= 144)
                                    /\ (b0 = 244 => b[i + 1] <= 143)
                cp == CASE n = 1 -> b0
                        [] n = 2 -> (b0 - 192) * 64 + (b[i + 1] - 128)
                        [] n = 3 -> (b0 - 224) * 4096 + (b[i + 1] - 128) * 64
                                    + (b[i + 2] - 128)
                        [] n = 4 -> (b0 - 240) * 262144 + (b[i + 1] - 128) * 4096
                                    + (b[i + 2] - 128) * 64 + (b[i + 3] - 128)
            IN  IF ~ok THEN Invalid
                ELSE LET rest == utf8_decode_at(b, i + n)
                     IN  IF rest = Invalid THEN Invalid ELSE <<cp>> \o rest

utf8_decode(b) == utf8_decode_at(b, 1)

(***************************************************************************)
(* DNSLoggerHelper.decode_hex: the decoded text, or the data itself when   *)
(* either step raises ValueError.                                          *)
(***************************************************************************)
decode_hex(data) ==
    The({IF b = Invalid THEN data
         ELSE The({IF t = Invalid THEN data ELSE t : t \in {utf8_decode(b)}})
         : b \in {fromhex(data)}})

(***************************************************************************)
(* DNSLoggerHelper.remove_suffix                                           *)
(***************************************************************************)
remove_suffix(data, suffix) ==
    IF suffix # <<>> /\ endswith(data, suffix)
    THEN SubSeq(data, 1, Len(data) - Len(suffix))
    ELSE data

(***************************************************************************)
(* str.split(".") and ".".join(...)                                        *)
(***************************************************************************)
\* the labels of s from position from on, the scan standing at position i
RECURSIVE split_at(_, _, _)
split_at(s, from, i) ==
    IF i > Len(s) THEN <<SubSeq(s, from, Len(s))>>
    ELSE IF s[i] = DOT
         THEN <<SubSeq(s, from, i - 1)>> \o split_at(s, i + 1, i + 1)
         ELSE split_at(s, from, i + 1)

split(s) == split_at(s, 1, 1)

RECURSIVE join_at(_, _)
join_at(parts, k) ==
    IF k > Len(parts) THEN <<>>
    ELSE IF k = Len(parts) THEN parts[k]
    ELSE parts[k] \o <<DOT>> \o join_at(parts, k + 1)

join(parts) == join_at(parts, 1)

(***************************************************************************)
(* DNSLogger.parse_question, on the name of the question: the name that    *)
(* set_qname stores (the name itself when hex_encoded is off).             *)
(***************************************************************************)
parse_question(qname, sfx, hex) ==
    IF ~hex THEN qname
    ELSE The({The({join(subdomains) \o sfx
                   : subdomains \in {[i \in 1..Len(labels) |->
                                          decode_hex(labels[i])]}})
              : labels \in {split(remove_suffix(qname, sfx))}})

(***************************************************************************)
(* State.                                                                  *)
(***************************************************************************)
VARIABLES
    raw,          \* the --suffix argument (main, line 109)
    suffix,       \* DNSLogger.suffix
    hex_encoded,  \* DNSLogger.hex_encoded
    cpc,          \* "new": no DNSLogger yet; "ready"; "asked"; "rendered"
    items,        \* how the question under test was built (inputs of Ask)
    qin,          \* name of the question handed to parse_question
    qout,         \* name of the question parse_question returned
    listener,     \* "serving" while serve_forever runs
    dgram,        \* the datagrams sent so far, by number
    pc,           \* where each datagram and its handler thread stand
    obj,          \* per handler: name held by parsed_req and by its deep copy
    line,         \* per handler: the text print() was given
    response,     \* per handler: what resolver.resolve returned
    sink,         \* stdout: the writes it received, in order
    sent          \* per handler: what it passed to connection.sendto

vars == <<raw, suffix, hex_encoded, cpc, items, qin, qout,
          listener, dgram, pc, obj, line, response, sink, sent>>

server_vars == <<listener, dgram, pc, obj, line, response, sink, sent>>
logger_vars == <<raw, suffix, hex_encoded, cpc, items, qin, qout>>

Datagrams == 1..MaxDatagrams

None == <<>>

(***************************************************************************)
(* Inputs.                                                                 *)
(***************************************************************************)
RECURSIVE StringsUpTo(_, _)
StringsUpTo(alphabet, n) ==
    IF n = 0 THEN {<<>>}
    ELSE LET shorter == StringsUpTo(alphabet, n - 1)
         IN  shorter \cup {Append(s, c) : s \in shorter, c \in alphabet}

\* raw --suffix arguments: every string of "." and "c" up to MaxSuffixLen,
\* and "c2.test" of the README-style use
RawSuffixes ==
    StringsUpTo({DOT, 99}, MaxSuffixLen)
        \cup {<<99, 50, 46, 116, 101, 115, 116>>}

\* the peer that sends datagram d: every datagram comes from a peer of its
\* own, so that a reply to the wrong peer shows
Client(d) == <<"10.0.0.1", 5000 + d>>

\* raw suffixes the listener is started with
ServerRawSuffixes == {<<>>, <<99>>}

\* question names of well-formed datagrams: "6869.c." and "zz.c."
QNames == {<<54, 56, 54, 57, 46, 99, 46>>, <<122, 122, 46, 99, 46>>}

NoResponse == [id |-> 0, qname |-> None]

NoDatagram == [wellformed |-> FALSE, qname |-> None, sender |-> None, resolver |-> ""]

(***************************************************************************)
(* The state after main() has built the server (lines 107-109), before     *)
(* serve_forever has received anything.                                    *)
(***************************************************************************)
ServerIdle ==
    /\ listener = "serving"
    /\ dgram = [d \in Datagrams |-> NoDatagram]
    /\ pc = [d \in Datagrams |-> "unsent"]
    /\ obj = [d \in Datagrams |-> [parsed |-> None, copy |-> None]]
    /\ line = [d \in Datagrams |-> None]
    /\ response = [d \in Datagrams |-> NoResponse]
    /\ sink = <<>>
    /\ sent = [d \in Datagrams |-> <<>>]

Init ==
    /\ raw \in ServerRawSuffixes
    /\ suffix = parse_suffix(raw)
    /\ hex_encoded \in BOOLEAN
    /\ cpc = "ready"
    /\ items = <<>>
    /\ qin = None
    /\ qout = None
    /\ ServerIdle

(***************************************************************************)
(* A peer sends a datagram; it waits in the socket until the receive loop  *)
(* takes it.  Datagrams are numbered in the order they are sent.  With a   *)
(* well-formed datagram comes what the resolver will do with its request.  *)
(***************************************************************************)
Arrive(d, names) ==
    /\ pc[d] = "unsent"
    /\ \A e \in Datagrams : e < d => pc[e] # "unsent"
    /\ \/ dgram' = [dgram EXCEPT ![d] =
              [wellformed |-> FALSE, qname |-> None, sender |-> Client(d),
               resolver |-> ""]]
       \/ \E q \in names, r \in {"returns", "raises", "hangs"} :
            dgram' = [dgram EXCEPT ![d] =
              [wellformed |-> TRUE, qname |-> q, sender |-> Client(d),
               resolver |-> r]]
    /\ pc' = [pc EXCEPT ![d] = "queued"]
    /\ UNCHANGED <<listener, obj, line, response, sink, sent>>
    /\ UNCHANGED logger_vars

(***************************************************************************)
(* ThreadingMixIn.process_request: the receive loop starts a thread for    *)
(* the request and returns at once, whatever the other handlers do.        *)
(***************************************************************************)
process_request_blocking ==
    /\ listener = "serving"
    /\ \A e \in Datagrams : pc[e] \in {"unsent", "queued", "done", "failed"}

process_request_ready == listener = "serving"

Receive(d) ==
    /\ pc[d] = "queued"
    /\ \A e \in Datagrams : e < d => pc[e] # "queued"
    /\ process_request_ready
    /\ pc' = [pc EXCEPT ![d] = "parse"]
    /\ UNCHANGED <<listener, dgram, obj, line, response, sink, sent>>
    /\ UNCHANGED logger_vars

(***************************************************************************)
(* An exception that leaves handle() ends the handler's thread; the thread *)
(* reports it and the listener goes on.                                    *)
(***************************************************************************)
handle_error_fatal(l) == "crashed"

handle_error(l) == l

(***************************************************************************)
(* handle, line 57: DNSRecord.parse(data)                                  *)
(***************************************************************************)
Parse(d) ==
    /\ pc[d] = "parse"
    /\ IF dgram[d].wellformed
       THEN /\ obj' = [obj EXCEPT ![d].parsed = dgram[d].qname]
            /\ pc' = [pc EXCEPT ![d] = "log"]
            /\ UNCHANGED listener
       ELSE /\ pc' = [pc EXCEPT ![d] = "failed"]
            /\ listener' = handle_error(listener)
            /\ UNCHANGED obj
    /\ UNCHANGED <<dgram, line, response, sink, sent>>
    /\ UNCHANGED logger_vars

(***************************************************************************)
(* handle, line 59: deepcopy(parsed_req), then DNSLogger.log up to the     *)
(* formatting of the line (lines 50-51): parse_question writes the         *)
(* rendered name into the question it was given.                           *)
(***************************************************************************)
deepcopy_alias == "parsed"

\* which object log() holds: the fresh copy
deepcopy == "copy"

client_address_latest(d) ==
    LET seen == {e \in Datagrams : pc[e] \notin {"unsent", "queued"}}
    IN  dgram[CHOOSE e \in seen : \A f \in seen : f <= e].sender

client_address(d) == dgram[d].sender

\* parsed_req and the object log() was given, after log() has rendered
log_rendered(d) ==
    LET copied == [obj[d] EXCEPT !.copy = obj[d].parsed]
        arg    == deepcopy
    IN  [copied EXCEPT ![arg] = parse_question(copied[arg], suffix, hex_encoded)]

LogRender(d) ==
    /\ pc[d] = "log"
    /\ obj' = [obj EXCEPT ![d] = log_rendered(d)]
    /\ line' = [line EXCEPT ![d] = <<client_address(d), log_rendered(d)[deepcopy]>>]
    /\ pc' = [pc EXCEPT ![d] = "write_text"]
    /\ UNCHANGED <<listener, dgram, response, sink, sent>>
    /\ UNCHANGED logger_vars

(***************************************************************************)
(* print(text), line 51: the text is written to stdout, and then the line  *)
(* terminator, as a write of its own.                                      *)
(***************************************************************************)
PrintText(d) ==
    /\ pc[d] = "write_text"
    /\ sink' = Append(sink, [part |-> "text", text |-> line[d]])
    /\ pc' = [pc EXCEPT ![d] = "write_end"]
    /\ UNCHANGED <<listener, dgram, obj, line, response, sent>>
    /\ UNCHANGED logger_vars

PrintEnd(d) ==
    /\ pc[d] = "write_end"
    /\ sink' = Append(sink, [part |-> "end", text |-> None])
    /\ pc' = [pc EXCEPT ![d] = "resolve"]
    /\ UNCHANGED <<listener, dgram, obj, line, response, sent>>
    /\ UNCHANGED logger_vars

(***************************************************************************)
(* handle, line 60: resolver.resolve(parsed_req, self).  The reply echoes  *)
(* the request's id and the question it was handed.  A resolver that hangs *)
(* never returns: the handler stays at "resolve".                          *)
(***************************************************************************)
resolve(d, name) == [id |-> d, qname |-> name]

ResolveReturn(d) ==
    /\ pc[d] = "resolve"
    /\ dgram[d].resolver = "returns"
    /\ response' = [response EXCEPT ![d] = resolve(d, obj[d].parsed)]
    /\ pc' = [pc EXCEPT ![d] = "send"]
    /\ UNCHANGED <<listener, dgram, obj, line, sink, sent>>
    /\ UNCHANGED logger_vars

resolve_error_swallowed == "send"

\* where a handler goes when resolve raises: out of handle()
resolve_error == "failed"

ResolveRaise(d) ==
    /\ pc[d] = "resolve"
    /\ dgram[d].resolver = "raises"
    /\ pc' = [pc EXCEPT ![d] = resolve_error]
    /\ listener' = handle_error(listener)
    /\ UNCHANGED <<dgram, obj, line, response, sink, sent>>
    /\ UNCHANGED logger_vars

(***************************************************************************)
(* handle, line 61: connection.sendto(response.pack(), client_address)     *)
(***************************************************************************)
Send(d) ==
    /\ pc[d] = "send"
    /\ sent' = [sent EXCEPT ![d] =
                  Append(@, [to |-> client_address(d), msg |-> response[d]])]
    /\ pc' = [pc EXCEPT ![d] = "done"]
    /\ UNCHANGED <<listener, dgram, obj, line, response, sink>>
    /\ UNCHANGED logger_vars

Handler(d) ==
    \/ Parse(d)
    \/ LogRender(d)
    \/ PrintText(d)
    \/ PrintEnd(d)
    \/ ResolveReturn(d)
    \/ ResolveRaise(d)
    \/ Send(d)

Next ==
    \/ \E d \in Datagrams : Arrive(d, QNames)
    \/ \E d \in Datagrams : Receive(d)
    \/ \E d \in Datagrams : Parse(d)
    \/ \E d \in Datagrams : LogRender(d)
    \/ \E d \in Datagrams : PrintText(d)
    \/ \E d \in Datagrams : PrintEnd(d)
    \/ \E d \in Datagrams : ResolveReturn(d)
    \/ \E d \in Datagrams : ResolveRaise(d)
    \/ \E d \in Datagrams : Send(d)

Spec == Init /\ [][Next]_vars

(***************************************************************************)
(* Scheduling: the receive loop takes a waiting datagram, and every        *)
(* handler thread that can take a step is given the processor.  Nothing    *)
(* makes a peer send, and nothing makes a hanging resolver return.         *)
(***************************************************************************)
Fairness ==
    /\ \A d \in Datagrams : WF_vars(Receive(d))
    /\ \A d \in Datagrams : WF_vars(Handler(d))

\* Replies in the end do not depend on the names asked for: the runs with
\* fair scheduling are those of a listener started with --suffix c, and
\* of datagrams that ask for "6869.c."
FairQNames == {<<54, 56, 54, 57, 46, 99, 46>>}

FairInit ==
    /\ raw = <<99>>
    /\ suffix = parse_suffix(raw)
    /\ hex_encoded \in BOOLEAN
    /\ cpc = "ready"
    /\ items = <<>>
    /\ qin = None
    /\ qout = None
    /\ ServerIdle

FairNext ==
    \/ \E d \in Datagrams : Arrive(d, FairQNames)
    \/ \E d \in Datagrams : Receive(d)
    \/ \E d \in Datagrams : Handler(d)

FairSpec == FairInit /\ [][FairNext]_vars /\ Fairness


(***************************************************************************)
(* The logger on its own: main builds it from the arguments (line 109),    *)
(* a question is handed to parse_question, parse_question renders it.      *)
(***************************************************************************)
\* texts that a client hex-encodes into a label: "hi", "h", e-acute
Texts == {<<104, 105>>, <<104>>, <<233>>}

\* labels sent as they are: "zz", "6", "68 69", "6g"
RawLabels == {<<122, 122>>, <<54>>, <<54, 56, 32, 54, 57>>, <<54, 103>>}

LabelItems ==
    {[kind |-> "text", v |-> t] : t \in Texts}
        \cup {[kind |-> "raw", v |-> l] : l \in RawLabels}

RECURSIVE ItemSeqs(_)
ItemSeqs(n) ==
    IF n = 0 THEN {<<>>}
    ELSE LET shorter == ItemSeqs(n - 1)
         IN  shorter \cup {Append(s, x) : s \in shorter, x \in LabelItems}

\* str.encode("utf-8") and bytes.hex(), as the client applies them
utf8_encode_cp(cp) ==
    IF cp < 128 THEN <<cp>>
    ELSE IF cp < 2048 THEN <<192 + (cp \div 64), 128 + (cp % 64)>>
    ELSE IF cp < 65536
         THEN <<224 + (cp \div 4096), 128 + ((cp \div 64) % 64), 128 + (cp % 64)>>
    ELSE <<240 + (cp \div 262144), 128 + ((cp \div 4096) % 64),
           128 + ((cp \div 64) % 64), 128 + (cp % 64)>>

HexDigit(n) == IF n < 10 THEN 48 + n ELSE 87 + n

RECURSIVE HexOfBytes(_)
HexOfBytes(b) ==
    IF b = <<>> THEN <<>>
    ELSE <<HexDigit(b[1] \div 16), HexDigit(b[1] % 16)>> \o HexOfBytes(Tail(b))

RECURSIVE HexOf(_)
HexOf(t) ==
    IF t = <<>> THEN <<>>
    ELSE HexOfBytes(utf8_encode_cp(t[1])) \o HexOf(Tail(t))

LabelOf(item) == IF item.kind = "text" THEN HexOf(item.v) ELSE item.v

\* what ends a name in front of which labels stand: the suffix, or the
\* root's "." when no suffix is configured
NameEnd(sfx) == IF sfx = <<>> THEN <<DOT>> ELSE sfx

\* the name made of the labels of its and the suffix; with no labels, the
\* name that is exactly the suffix (str() of a name has no leading ".")
NameOf(its, sfx) ==
    IF its = <<>> THEN Tail(sfx)
    ELSE join([i \in 1..Len(its) |-> LabelOf(its[i])]) \o NameEnd(sfx)

CodecInit ==
    /\ raw \in RawSuffixes
    /\ suffix = None
    /\ hex_encoded \in BOOLEAN
    /\ cpc = "new"
    /\ items = <<>>
    /\ qin = None
    /\ qout = None
    /\ ServerIdle

\* DNSLogger.__init__
Construct ==
    /\ cpc = "new"
    /\ suffix' = parse_suffix(raw)
    /\ cpc' = "ready"
    /\ UNCHANGED <<raw, hex_encoded, items, qin, qout>>
    /\ UNCHANGED server_vars

\* a question arrives at the logger
Ask ==
    /\ cpc = "ready"
    /\ \E its \in ItemSeqs(MaxLabels) :
         /\ its = <<>> => Len(suffix) >= 2
         /\ items' = its
         /\ qin' = NameOf(its, suffix)
    /\ cpc' = "asked"
    /\ UNCHANGED <<raw, suffix, hex_encoded, qout>>
    /\ UNCHANGED server_vars

\* DNSLogger.parse_question
ParseQuestion ==
    /\ cpc = "asked"
    /\ qout' = parse_question(qin, suffix, hex_encoded)
    /\ cpc' = "rendered"
    /\ UNCHANGED <<raw, suffix, hex_encoded, items, qin>>
    /\ UNCHANGED server_vars

CodecNext == Construct \/ Ask \/ ParseQuestion

CodecSpec == CodecInit /\ [][CodecNext]_vars


(***************************************************************************)
(* Vocabulary of the properties.                                           *)
(***************************************************************************)
WellFormed(d) == pc[d] # "unsent" /\ dgram[d].wellformed

Malformed(d) == pc[d] # "unsent" /\ ~dgram[d].wellformed

Returns(d) == WellFormed(d) /\ dgram[d].resolver = "returns"

Raises(d) == WellFormed(d) /\ dgram[d].resolver = "raises"

\* the resolver call of d's handler has been made and will never return
Hung(d) == WellFormed(d) /\ dgram[d].resolver = "hangs" /\ pc[d] = "resolve"

\* d's handler has returned from DNSLogger.log
LogReturned(d) == WellFormed(d) /\ pc[d] \in {"resolve", "send", "done", "failed"}

\* the one reply d is due has been sent
Answered(d) == pc[d] = "done" /\ Len(sent[d]) = 1

\* the line of d's request has been written to the sink
Logged(d) == \E i \in 1..Len(sink) : sink[i].part = "text" /\ sink[i].text = line[d]

\* the log line the request of d is due
LineOf(d) ==
    <<dgram[d].sender, parse_question(dgram[d].qname, suffix, hex_encoded)>>

\* sink[i] .. sink[i+1] is a whole line holding exactly the given text
WholeLineAt(i, text) ==
    /\ sink[i].part = "text"
    /\ sink[i].text = text
    /\ i = 1 \/ sink[i - 1].part = "end"
    /\ i < Len(sink)
    /\ sink[i + 1].part = "end"

RECURSIVE LeadingDots(_)
LeadingDots(s) ==
    IF s = <<>> \/ s[1] # DOT THEN 0 ELSE 1 + LeadingDots(Tail(s))

\* pairs of hex digits and nothing else
ValidHex(l) == Len(l) % 2 = 0 /\ \A i \in 1..Len(l) : IsHexDigit(l[i])

(***************************************************************************)
(* C1: the request handed to the resolver carries the question name that   *)
(* was parsed from the wire: once log() has its argument, and up to and    *)
(* after the resolver call, parsed_req holds the wire name, and the        *)
(* resolver's reply echoes that name, in both modes and for every suffix.  *)
(***************************************************************************)
C1_OriginalRequestIntact ==
    \A d \in Datagrams :
        /\ (WellFormed(d) /\ pc[d] \in {"write_text", "write_end", "resolve",
                                        "send", "done", "failed"})
              => obj[d].parsed = dgram[d].qname
        /\ pc[d] \in {"send", "done"} => response[d].qname = dgram[d].qname

\* a request whose label was decoded in the logged copy has been resolved
C1_Witness ==
    \E d \in Datagrams :
        /\ hex_encoded
        /\ pc[d] = "done"
        /\ obj[d].copy # dgram[d].qname
        /\ response[d].qname = dgram[d].qname

(***************************************************************************)
(* C2: whatever the interleaving of the handlers, a handler sends at most  *)
(* one reply, only after its resolver call returned, and has sent exactly  *)
(* one when it is done; the reply is the resolver's response to that       *)
(* handler's own request and goes to that datagram's own sender, never to  *)
(* the sender of another datagram.                                         *)
(***************************************************************************)
C2_RepliesCorrelated ==
    \A d \in Datagrams :
        /\ Len(sent[d]) <= 1
        /\ sent[d] # <<>> => Returns(d)
        /\ (Returns(d) /\ pc[d] = "done") => Len(sent[d]) = 1
        /\ \A i \in 1..Len(sent[d]) :
              /\ sent[d][i].to = Client(d)
              /\ sent[d][i].msg = resolve(d, dgram[d].qname)
              /\ \A e \in Datagrams \ {d} : sent[d][i].to # Client(e)

\* the second datagram was answered while the handler of the first, started
\* earlier, had not sent its reply yet
C2_Witness ==
    \E d, e \in Datagrams :
        /\ d < e
        /\ Returns(d) /\ pc[d] = "send"
        /\ Returns(e) /\ Answered(e)

(***************************************************************************)
(* C3: a datagram that does not parse is never replied to and its handler  *)
(* goes no further than the parse; the listener keeps serving; and every   *)
(* well-formed datagram, whose resolver returns, that waits or is handled  *)
(* when a malformed one has been sent is logged and answered in the end.   *)
(***************************************************************************)
C3_MalformedContained ==
    /\ [](\A d \in Datagrams :
            Malformed(d) => /\ sent[d] = <<>>
                            /\ pc[d] \in {"queued", "parse", "failed"}
                            /\ ~Logged(d))
    /\ [](listener = "serving")
    /\ \A d \in Datagrams :
          ((\E m \in Datagrams : Malformed(m)) /\ Returns(d))
              ~> (Answered(d) /\ Logged(d))

\* a well-formed datagram sent after a malformed one failed was answered
C3_Witness ==
    \E m, d \in Datagrams :
        /\ m < d
        /\ Malformed(m) /\ pc[m] = "failed" /\ sent[m] = <<>>
        /\ Returns(d) /\ Answered(d)

(***************************************************************************)
(* C4: the sink holds whole lines only: a text is directly followed by     *)
(* its line terminator (or is the last write, its terminator still to      *)
(* come), and every terminator directly follows a text.                    *)
(***************************************************************************)
C4_WholeLinesOnly ==
    \A i \in 1..Len(sink) :
        /\ (sink[i].part = "text" /\ i < Len(sink)) => sink[i + 1].part = "end"
        /\ sink[i].part = "end" => (i > 1 /\ sink[i - 1].part = "text")

(***************************************************************************)
(* C5: the receive loop does not wait for handlers: while some handler is  *)
(* hung in the resolver, a waiting datagram is still taken and handed to   *)
(* a new handler, and every datagram whose resolver returns is answered.   *)
(* A hung handler never sends.                                             *)
(***************************************************************************)
C5_HungHandlerStallsOnlyItself ==
    /\ \A d \in Datagrams :
          ((\E h \in Datagrams : Hung(h)) /\ pc[d] = "queued")
              ~> (pc[d] # "queued")
    /\ \A d \in Datagrams :
          ((\E h \in Datagrams : Hung(h)) /\ Returns(d)) ~> Answered(d)
    /\ [](\A h \in Datagrams : Hung(h) => sent[h] = <<>>)

\* a datagram sent after an earlier handler hung was answered
C5_Witness ==
    \E h, d \in Datagrams :
        /\ h < d
        /\ Hung(h)
        /\ Returns(d) /\ Answered(d)

(***************************************************************************)
(* C6: a request whose resolver call raises is never replied to; its       *)
(* handler ends there and the listener keeps serving; every other request  *)
(* whose resolver returns, in flight or later, is answered.                *)
(***************************************************************************)
C6_ResolverErrorContained ==
    /\ [](\A d \in Datagrams :
            Raises(d) => /\ sent[d] = <<>>
                         /\ pc[d] \notin {"send", "done"})
    /\ [](\A d \in Datagrams :
            (Raises(d) /\ pc[d] = "failed") => listener = "serving")
    /\ \A d \in Datagrams :
          ((\E m \in Datagrams : Raises(m) /\ pc[m] = "failed") /\ Returns(d))
              ~> Answered(d)

\* a request sent after another one's resolver call raised was answered
C6_Witness ==
    \E m, d \in Datagrams :
        /\ m < d
        /\ Raises(m) /\ pc[m] = "failed" /\ sent[m] = <<>>
        /\ Returns(d) /\ Answered(d)

(***************************************************************************)
(* C7: every request whose handler has returned from log() has exactly     *)
(* one line in the sink, and that line is "<sender>: <rendered question>"  *)
(* of that request; requests not yet logged have none; the sink holds as   *)
(* many lines as requests were logged.                                     *)
(***************************************************************************)
C7_OneLinePerRequest ==
    /\ \A d \in Datagrams :
          LogReturned(d) =>
              Cardinality({i \in 1..Len(sink) : WholeLineAt(i, LineOf(d))}) = 1
    /\ Cardinality({i \in 1..Len(sink) : sink[i].part = "end"})
          = Cardinality({d \in Datagrams : LogReturned(d)})

C9_SuffixCanonical ==
    cpc # "new" =>
        /\ parse_suffix(suffix) = suffix
        /\ suffix = <<>> <=> raw = <<>>
        /\ raw # <<>> =>
              /\ suffix[1] = DOT
              /\ suffix[Len(suffix)] = DOT
              /\ LeadingDots(raw) <= 1 => LeadingDots(suffix) = 1
              /\ LeadingDots(raw) > 1 => LeadingDots(suffix) = LeadingDots(raw)

\* "c2.test" was normalised to ".c2.test."
C9_Witness ==
    /\ cpc = "ready"
    /\ raw = <<99, 50, 46, 116, 101, 115, 116>>
    /\ suffix = <<46, 99, 50, 46, 116, 101, 115, 116, 46>>

(***************************************************************************)
(* C9 as stated: parse_suffix is idempotent; its result is empty exactly   *)
(* when the argument is, and otherwise begins with a single "." and ends   *)
(* with ".".                                                               *)
(***************************************************************************)
C9_SingleLeadingDot ==
    cpc # "new" =>
        /\ parse_suffix(suffix) = suffix
        /\ suffix = <<>> <=> raw = <<>>
        /\ raw # <<>> =>
              /\ suffix[Len(suffix)] = DOT
              /\ suffix[1] = DOT
              /\ Len(suffix) >= 2 => suffix[2] # DOT \/ Len(suffix) = 2

(***************************************************************************)
(* C10: in hex-encoded mode a name that is exactly the configured suffix   *)
(* renders with the suffix once: as the empty join plus the suffix, or at  *)
(* least as a name in which the suffix does not stand twice.               *)
(***************************************************************************)
C10_SuffixOnlyName ==
    (cpc = "rendered" /\ hex_encoded /\ items = <<>>)
        => (qout = suffix \/ qout = qin)

====
